---- MODULE Spec2Model ----
(***************************************************************************)
(* A model of src/geometrycontrols.js: the button registry and             *)
(* toggleButtons (exclusive activation of digitizing tools), the auto-save *)
(* aspect installed by addAutoSaveAspect, and the Ajaxpect advice engine   *)
(* (aop.addBefore / addAfter / addAround).                                 *)
(***************************************************************************)
EXTENDS Integers, Sequences, FiniteSets, TLC

\* ------------------------------------------------------------------------
\* Bounds
\* ------------------------------------------------------------------------

\* number of distinct control names the environment registers
MaxNames == 3
\* number of createButton calls that build a button
MaxButtons == 3

\* number of editing sessions (geomInfo objects) the controls create
MaxSessions == 3
\* number of advice attachments made on the advised object
MaxAdvice == 3
\* largest argument or result value a function of the model handles
MaxVal == 2
\* how often an around advice may call the original
MaxTimes == 2
\* nested calls through me.autoSaveListener before the engine's stack is exhausted
MaxDepth == 3

\* most vertices of a stored geometry
MaxVertices == 2
\* largest latitude or longitude of a vertex
MaxCoord == 1
\* largest id the server has given a record
MaxId == 1

\* most bindInfoWindow calls when a geomInfo may be bound again
MaxBinds == 4

\* control names are 1..MaxNames; NoName is a call without button_name
NoName == 0
Names == 1..MaxNames

VARIABLES
    btnOpts,              \* per created button: the `opts` its click listener closes over
    imgSrc,               \* per created button: button.img.src, "up" or "down"
    buttons_,             \* me.buttons_: controlName -> button, in insertion order
    stopDigitizingFuncs_, \* me.stopDigitizingFuncs_: controlName -> stop function
    digitizing,           \* per tool: started and not stopped since
    last,                 \* the operation that produced this state, with what it observed
    streak,               \* consecutive clicks on one button since no tool was active
    autoSave,             \* me.Options.autoSave
    me,                   \* the members of the GeometryControls object that aop advises
    commitStyling,        \* per geomInfo: its commitStyling member
    bound,                \* the geomInfo objects passed to bindInfoWindow, in call order
    lastCommit,           \* the last bindInfoWindow or commitStyling call and what it did
    obj,                  \* an object whose members receive advice
    attachments,          \* the attachments made to obj so far, in order
    lastCall,             \* the last call of a member of obj and what it did
    record,               \* geomInfo.storage[index]: the record saveData is given
    lastSave,             \* the last saveData call: its record and the requests it made
    controls,             \* me.controls: the names of the controls added by addControl
    debugOn,              \* me.Options.debug
    failed,               \* some createGeometry_ call so far found no control for its type
    lastCreate            \* the last createGeometry_ call and what it did

toolVars == <<btnOpts, imgSrc, buttons_, stopDigitizingFuncs_, digitizing, last, streak>>

\* ------------------------------------------------------------------------
\* JavaScript objects used as maps: keys in insertion order (for .. in)
\* ------------------------------------------------------------------------

Has(tbl, name) == \E k \in 1..Len(tbl) : tbl[k].name = name

Lookup(tbl, name) == tbl[CHOOSE k \in 1..Len(tbl) : tbl[k].name = name].ref

\* obj[name] = ref: an existing key keeps its place, a new key goes last
Put(tbl, name, ref) ==
    IF Has(tbl, name)
    THEN [k \in 1..Len(tbl) |->
            IF tbl[k].name = name THEN [name |-> name, ref |-> ref] ELSE tbl[k]]
    ELSE Append(tbl, [name |-> name, ref |-> ref])

RegisteredButtons == {buttons_[k].ref : k \in 1..Len(buttons_)}

\* ------------------------------------------------------------------------
\* The tools' own functions (the geometry controls that call createButton).
\* A handler run is a record S: the images, the tools' state, the calls made
\* so far, whether an exception is propagating, and which of the tools'
\* functions raise during this run.
\* ------------------------------------------------------------------------

Run(badStop, badStart) ==
    [imgSrc |-> imgSrc, digitizing |-> digitizing, calls |-> <<>>, err |-> FALSE,
     badStop |-> badStop, badStart |-> badStart]

Call(f, t, arg) == [f |-> f, tool |-> t, arg |-> arg]

\* stopDigitizing(false): the tool turns itself off and leaves the buttons alone
stopDigitizingFalse(S, t) ==
    IF t \in S.badStop
    THEN [S EXCEPT !.calls = Append(@, Call("stop", t, "false")), !.err = TRUE]
    ELSE [S EXCEPT !.calls = Append(@, Call("stop", t, "false")),
                   !.digitizing[t] = FALSE]

\* ------------------------------------------------------------------------
\* GeometryControls.prototype.toggleButtons
\* ------------------------------------------------------------------------

\* for (var button in me.buttons_) img.src = img_up_url
ButtonsUp(src) ==
    [b \in 1..Len(src) |-> IF b \in RegisteredButtons THEN "up" ELSE src[b]]

\* a loop without the test func != button_name
RECURSIVE StopOthers_All(_, _, _)
StopOthers_All(S, k, button_name) ==
    IF k > Len(stopDigitizingFuncs_) \/ S.err THEN S
    ELSE StopOthers_All(stopDigitizingFalse(S, stopDigitizingFuncs_[k].ref), k + 1, button_name)

\* for (var func in me.stopDigitizingFuncs_) if (func != button_name) f(false)
RECURSIVE StopOthers(_, _, _)
StopOthers(S, k, button_name) ==
    IF k > Len(stopDigitizingFuncs_) \/ S.err THEN S
    ELSE LET e == stopDigitizingFuncs_[k]
         IN  StopOthers(IF e.name # button_name
                        THEN stopDigitizingFalse(S, e.ref) ELSE S,
                        k + 1, button_name)

\* toggleButtons that leaves the other tools' stop functions uncalled
toggleButtons_NoStop(S, button_name) ==
    LET S1 == [S EXCEPT !.imgSrc = ButtonsUp(@)]
    IN  IF button_name = NoName THEN S1
        ELSE IF ~Has(buttons_, button_name) THEN [S1 EXCEPT !.err = TRUE]
        ELSE [S1 EXCEPT !.imgSrc[Lookup(buttons_, button_name)] = "down"]

\* toggleButtons that calls the stop functions also when no name is given
toggleButtons_StopsWithoutName(S, button_name) ==
    LET S1 == [S EXCEPT !.imgSrc = ButtonsUp(@)]
    IN  IF button_name = NoName THEN StopOthers(S1, 1, NoName)
        ELSE IF ~Has(buttons_, button_name) THEN [S1 EXCEPT !.err = TRUE]
        ELSE StopOthers([S1 EXCEPT !.imgSrc[Lookup(buttons_, button_name)] = "down"],
                        1, button_name)

toggleButtons(S, button_name) ==
    LET S1 == [S EXCEPT !.imgSrc = ButtonsUp(@)]
    IN  IF button_name = NoName THEN S1
        ELSE IF ~Has(buttons_, button_name)
        THEN [S1 EXCEPT !.err = TRUE]   \* me.buttons_[button_name] is undefined
        ELSE StopOthers([S1 EXCEPT !.imgSrc[Lookup(buttons_, button_name)] = "down"],
                        1, button_name)

\* ------------------------------------------------------------------------
\* The tools' functions as the click listener calls them (no argument)
\* ------------------------------------------------------------------------

\* stopDigitizing(): the argument is not false, so the tool resets the buttons
\* through toggleButtons() and turns itself off
stopDigitizing(S, t) ==
    IF t \in S.badStop
    THEN [S EXCEPT !.calls = Append(@, Call("stop", t, "undefined")), !.err = TRUE]
    ELSE LET S1 == toggleButtons(S, NoName)
         IN  [S1 EXCEPT !.calls = Append(@, Call("stop", t, "undefined")),
                        !.digitizing[t] = FALSE]

startDigitizing(S, t) ==
    IF S.badStart \/ ~btnOpts[t].startIsFn
    THEN [S EXCEPT !.calls = Append(@, Call("start", t, "undefined")), !.err = TRUE]
    ELSE [S EXCEPT !.calls = Append(@, Call("start", t, "undefined")),
                   !.digitizing[t] = TRUE]

\* ------------------------------------------------------------------------
\* createButton and its click listener
\* ------------------------------------------------------------------------

\* a listener that never takes the else branch
clickListener_AlwaysStart(S, b) ==
    LET S1 == toggleButtons(S, btnOpts[b].controlName)
    IN  IF S1.err THEN S1 ELSE startDigitizing(S1, b)

\* a listener that starts or stops the tool without calling toggleButtons
clickListener_NoToggle(S, b) ==
    IF S.imgSrc[b] = "up" THEN startDigitizing(S, b)
    ELSE [S EXCEPT !.calls = Append(@, Call("stop", b, "undefined")),
                   !.digitizing[b] = FALSE]

clickListener(S, b) ==
    LET S1 == toggleButtons(S, btnOpts[b].controlName)
    IN  IF S1.err THEN S1
        ELSE IF S.imgSrc[b] = "up" THEN startDigitizing(S1, b)
        ELSE stopDigitizing(S1, b)

\* the guard of createButton: typeof(start) && typeof(stop) !== "function"
\* (typeof yields a non-empty string, so only stopDigitizing is tested)
rejects(startIsFn, stopIsFn) == ~stopIsFn

NoneActive == /\ \A b \in RegisteredButtons : imgSrc[b] = "up"
              /\ \A t \in 1..Len(digitizing) : ~digitizing[t]

Observed(op, name, btn, S) ==
    [op |-> op, name |-> name, btn |-> btn,
     calls |-> S.calls, err |-> S.err,
     preSrc |-> imgSrc, preDig |-> digitizing,
     preButtons |-> buttons_, preStops |-> stopDigitizingFuncs_]

CreateButton(name, startIsFn, stopIsFn) ==
    /\ Len(btnOpts) < MaxButtons
    /\ LET b == Len(btnOpts) + 1
       IN  IF rejects(startIsFn, stopIsFn)
           THEN /\ UNCHANGED <<btnOpts, imgSrc, buttons_, stopDigitizingFuncs_, digitizing>>
                /\ last' = Observed("createButton", name, 0, Run({}, FALSE))
           ELSE /\ btnOpts' = Append(btnOpts, [controlName |-> name, startIsFn |-> startIsFn])
                /\ imgSrc' = Append(imgSrc, "up")
                /\ digitizing' = Append(digitizing, FALSE)
                /\ buttons_' = Put(buttons_, name, b)
                /\ stopDigitizingFuncs_' = Put(stopDigitizingFuncs_, name, b)
                /\ last' = Observed("createButton", name, b, Run({}, FALSE))
    /\ streak' = [btn |-> 0, n |-> 0]

Click(b, badStop, badStart) ==
    LET S == clickListener(Run(badStop, badStart), b)
    IN  /\ imgSrc' = S.imgSrc
        /\ digitizing' = S.digitizing
        /\ last' = Observed("click", btnOpts[b].controlName, b, S)
        /\ streak' = IF S.err THEN [btn |-> 0, n |-> 0]
                     ELSE IF streak.btn = b /\ streak.n \in {1, 2}
                     THEN [btn |-> b, n |-> streak.n + 1]
                     ELSE IF NoneActive THEN [btn |-> b, n |-> 1]
                     ELSE [btn |-> 0, n |-> 0]
        /\ UNCHANGED <<btnOpts, buttons_, stopDigitizingFuncs_>>

\* a direct call me.toggleButtons(button_name), button_name possibly missing
ToggleButtonsCall(name, badStop) ==
    LET S == toggleButtons(Run(badStop, FALSE), name)
    IN  /\ imgSrc' = S.imgSrc
        /\ digitizing' = S.digitizing
        /\ last' = Observed("toggleButtons", name, 0, S)
        /\ streak' = [btn |-> 0, n |-> 0]
        /\ UNCHANGED <<btnOpts, buttons_, stopDigitizingFuncs_>>

ToolInit ==
    /\ btnOpts = <<>>
    /\ imgSrc = <<>>
    /\ buttons_ = <<>>
    /\ stopDigitizingFuncs_ = <<>>
    /\ digitizing = <<>>
    /\ last = [op |-> "init", name |-> NoName, btn |-> 0, calls |-> <<>>, err |-> FALSE,
               preSrc |-> <<>>, preDig |-> <<>>, preButtons |-> <<>>, preStops |-> <<>>]
    /\ streak = [btn |-> 0, n |-> 0]

saveVars == <<autoSave, me, commitStyling, bound, lastCommit>>
aopVars == <<obj, attachments, lastCall>>
dataVars == <<record, lastSave, controls, debugOn, failed, lastCreate>>
vars == <<toolVars, saveVars, aopVars, dataVars>>

\* ------------------------------------------------------------------------
\* Function values.  A function is the sequence of its layers: first the
\* function that was there to begin with (or undefined), then one wrapper
\* per attach_, the last one outermost.  A layer of kind
\*   "fn"      is a plain function, returning Ret of its argument,
\*   "undef"   is undefined or null,
\*   "slot"    is function(){ me.autoSaveListener(); },
\*   "before", "after", "around" is the wrapper built by the link of
\*             addBefore, addAfter, addAround around the layers below it.
\* ------------------------------------------------------------------------

NVals == MaxVal + 1
Vals == 0..MaxVal
Undefined == 0

Layer(k, id, shift, times) == [k |-> k, id |-> id, shift |-> shift, times |-> times]
FnBase(id, shift) == Layer("fn", id, shift, 0)
UndefBase == Layer("undef", 0, 0, 0)
SlotBase == Layer("slot", 0, 0, 0)

\* what the function or advice of layer l returns for the value v it is
\* given: a negative shift stands for a function without a return statement
Ret(l, v) == IF l.shift < 0 THEN Undefined ELSE (v + l.shift) % NVals

Ev(role, who, recv, ret) == [role |-> role, who |-> who, recv |-> recv, ret |-> ret]
Returned(ret, trace) == [ret |-> ret, trace |-> trace, err |-> FALSE]
Thrown(trace) == [ret |-> Undefined, trace |-> trace, err |-> TRUE]

\* ------------------------------------------------------------------------
\* GeometryControls.prototype.aop (Ajaxpect)
\* ------------------------------------------------------------------------

\* a wrapper that calls orig with the caller's arguments, dropping what the
\* advice returned
beforeArgs_CallerArgs(l, args) == args

\* the wrapper of addBefore: orig.apply(this, before(arguments, orig, this))
beforeArgs(l, args) == Ret(l, args)

wrapBefore(l, args, origUndefined, inner) ==
    IF origUndefined THEN Thrown(<<>>)      \* orig.apply of undefined
    ELSE [inner EXCEPT !.trace = <<Ev("before", l.id, args, Ret(l, args))>> \o @]

\* a wrapper that hands the caller's arguments, not the result, to the advice
wrapAfter_ArgsToAdvice(l, args, inner) ==
    IF inner.err THEN inner
    ELSE LET r == Ret(l, args)
         IN  Returned(r, Append(inner.trace, Ev("after", l.id, args, r)))

\* the wrapper of addAfter: after(orig.apply(this, arguments), arguments, orig, this)
wrapAfter(l, args, inner) ==
    IF inner.err THEN inner
    ELSE LET r == Ret(l, inner.ret)
         IN  Returned(r, Append(inner.trace, Ev("after", l.id, inner.ret, r)))

\* the wrapper of addAround: around(arguments, orig, this); the advice calls
\* orig l.times times with the arguments and returns from the last result
RECURSIVE Repeat(_, _)
Repeat(trace, n) == IF n = 0 THEN <<>> ELSE trace \o Repeat(trace, n - 1)

\* a wrapper that calls orig itself before it hands it to the advice
wrapAround_CallsOrig(l, args, inner) ==
    IF inner.err THEN inner
    ELSE LET r == Ret(l, inner.ret)
         IN  Returned(r, inner.trace \o <<Ev("around", l.id, args, r)>>
                            \o Repeat(inner.trace, l.times))

wrapAround(l, args, inner) ==
    IF l.times = 0 THEN Returned(Ret(l, args), <<Ev("around", l.id, args, Ret(l, args))>>)
    ELSE IF inner.err THEN Thrown(<<Ev("around", l.id, args, Undefined)>> \o inner.trace)
    ELSE LET r == Ret(l, inner.ret)
         IN  Returned(r, <<Ev("around", l.id, args, r)>> \o Repeat(inner.trace, l.times))

\* calling the function made of layers 1..n of f with args
RECURSIVE Apply(_, _, _, _)
Apply(f, n, args, depth) ==
    LET l == f[n]
    IN  IF depth > MaxDepth THEN Thrown(<<>>)     \* too much recursion
        ELSE CASE l.k = "undef" -> Thrown(<<>>)   \* not a function
               [] l.k = "fn" -> Returned(Ret(l, args), <<Ev("orig", l.id, args, Ret(l, args))>>)
               [] l.k = "slot" ->
                    LET g == me["autoSaveListener"]
                        r == Apply(g, Len(g), Undefined, depth + 1)
                    IN  [r EXCEPT !.ret = Undefined]
               [] l.k = "before" ->
                    wrapBefore(l, args, f[n - 1].k = "undef",
                               Apply(f, n - 1, beforeArgs(l, args), depth))
               [] l.k = "after" -> wrapAfter(l, args, Apply(f, n - 1, args, depth))
               [] l.k = "around" -> wrapAround(l, args, Apply(f, n - 1, args, depth))

Invoke(f, args) == Apply(f, Len(f), args, 0)

\* an attach_ that wraps the function the member had at first
attach__Replace(o, member, link) ==
    LET orig == IF member \in DOMAIN o THEN <<o[member][1]>> ELSE <<UndefBase>>
    IN  [x \in DOMAIN o \cup {member} |-> IF x = member THEN Append(orig, link) ELSE o[x]]

\* attach_: var orig = obj[member]; obj[member] = link(orig)
attach_(o, member, link) ==
    LET orig == IF member \in DOMAIN o THEN o[member] ELSE <<UndefBase>>
    IN  [x \in DOMAIN o \cup {member} |-> IF x = member THEN Append(orig, link) ELSE o[x]]

\* a filter is a plain member name, or a RegExp or function matching names
NameFilter(name) == [exec |-> FALSE, name |-> name, matches |-> {}]
MatchFilter(names) == [exec |-> TRUE, name |-> "", matches |-> names]

\* the members attach_ is called for
Selected(o, filter) ==
    IF filter.exec THEN {x \in DOMAIN o : x \in filter.matches} ELSE {filter.name}

RECURSIVE AttachAll(_, _, _)
AttachAll(o, members, link) ==
    IF members = {} THEN o
    ELSE LET member == CHOOSE x \in members : TRUE
         IN  AttachAll(attach_(o, member, link), members \ {member}, link)

process_(o, filter, link) == AttachAll(o, Selected(o, filter), link)

addBefore(o, filter, before) == process_(o, filter, Layer("before", before.id, before.shift, 0))
addAfter(o, filter, after) == process_(o, filter, Layer("after", after.id, after.shift, 0))
addAround(o, filter, around) ==
    process_(o, filter, Layer("around", around.id, around.shift, around.times))

Advice(id, shift, times) == [id |-> id, shift |-> shift, times |-> times]

\* ------------------------------------------------------------------------
\* addAutoSaveAspect
\* ------------------------------------------------------------------------

\* the advice attached to autoSaveListener: me.saveData({geomInfo: geomInfo})
SaveData(g) == Advice(g, -1, 0)

\* an advice that captures commitStyling only while autoSaveListener is still null
autoSaveBefore_CaptureOnce(st, g) ==
    LET cur == st.me["autoSaveListener"]
        me1 == IF cur[1].k = "undef"
               THEN [st.me EXCEPT !["autoSaveListener"] = st.commitStyling[g]]
               ELSE st.me
    IN  [me |-> addAfter(me1, NameFilter("autoSaveListener"), SaveData(g)),
         commitStyling |-> [st.commitStyling EXCEPT ![g] = <<SlotBase>>]]

\* the advice on bindInfoWindow, run with geomInfo g; it returns args as is
autoSaveBefore(st, g) ==
    LET me1 == [st.me EXCEPT !["autoSaveListener"] = st.commitStyling[g]]
    IN  [me |-> addAfter(me1, NameFilter("autoSaveListener"), SaveData(g)),
         commitStyling |-> [st.commitStyling EXCEPT ![g] = <<SlotBase>>]]

addAutoSaveAspect(o) == addBefore(o, NameFilter("bindInfoWindow"), Advice(0, 0, 0))

\* the bindInfoWindow method the aspect advises: it binds the info window of
\* a geometry and returns nothing
bindInfoWindow == <<FnBase(0, -1)>>

\* the constructor: me.autoSaveListener = null, then runInitFunctions_
Constructed(opt) ==
    LET o == [x \in {"bindInfoWindow", "autoSaveListener"} |->
                IF x = "bindInfoWindow" THEN bindInfoWindow ELSE <<UndefBase>>]
    IN  IF opt THEN addAutoSaveAspect(o) ELSE o

\* a control creates a geomInfo with its own commitStyling callback
NewGeomInfo ==
    /\ Len(commitStyling) < MaxSessions
    /\ commitStyling' = Append(commitStyling, <<FnBase(Len(commitStyling) + 1, -1)>>)
    /\ lastCommit' = [op |-> "new", g |-> Len(commitStyling) + 1, trace |-> <<>>,
                      err |-> FALSE, wasBound |-> FALSE]
    /\ UNCHANGED <<autoSave, me, bound>>

\* me.bindInfoWindow(geomInfo)
BindInfoWindow(g) ==
    LET f == me["bindInfoWindow"]
        advised == f[Len(f)].k = "before"
        r == Invoke(f, Undefined)
        st == IF advised /\ ~r.err
              THEN autoSaveBefore([me |-> me, commitStyling |-> commitStyling], g)
              ELSE [me |-> me, commitStyling |-> commitStyling]
    IN  /\ me' = st.me
        /\ commitStyling' = st.commitStyling
        /\ bound' = IF r.err THEN bound ELSE Append(bound, g)
        /\ lastCommit' = [op |-> "bind", g |-> g, trace |-> r.trace, err |-> r.err,
                          wasBound |-> \E i \in 1..Len(bound) : bound[i] = g]
        /\ UNCHANGED autoSave

\* geomInfo.commitStyling()
CommitStyling(g) ==
    LET r == Invoke(commitStyling[g], Undefined)
    IN  /\ lastCommit' = [op |-> "commit", g |-> g, trace |-> r.trace, err |-> r.err,
                          wasBound |-> \E i \in 1..Len(bound) : bound[i] = g]
        /\ UNCHANGED <<autoSave, me, commitStyling, bound>>

SaveInit ==
    /\ autoSave \in BOOLEAN
    /\ me = Constructed(autoSave)
    /\ commitStyling = <<>>
    /\ bound = <<>>
    /\ lastCommit = [op |-> "init", g |-> 0, trace |-> <<>>, err |-> FALSE, wasBound |-> FALSE]

\* ------------------------------------------------------------------------
\* Advice on the members of an object: obj.m is a function, obj.x is missing
\* ------------------------------------------------------------------------

Members == {"m", "x"}
Filters == {NameFilter(n) : n \in Members} \cup {MatchFilter({"m"})}

Attached == Len(attachments)

Attachment(k, filter, id) == [k |-> k, on |-> Selected(obj, filter), id |-> id]

\* advice functions are told apart by the order in which they were attached
AddBefore(filter) ==
    /\ Attached < MaxAdvice
    /\ obj' = addBefore(obj, filter, Advice(Attached + 1, (Attached + 1) % NVals, 0))
    /\ attachments' = Append(attachments, Attachment("before", filter, Attached + 1))
    /\ UNCHANGED lastCall

AddAfter(filter) ==
    /\ Attached < MaxAdvice
    /\ obj' = addAfter(obj, filter, Advice(Attached + 1, (Attached + 1) % NVals, 0))
    /\ attachments' = Append(attachments, Attachment("after", filter, Attached + 1))
    /\ UNCHANGED lastCall

AddAround(filter, times) ==
    /\ Attached < MaxAdvice
    /\ obj' = addAround(obj, filter, Advice(Attached + 1, (Attached + 1) % NVals, times))
    /\ attachments' = Append(attachments, Attachment("around", filter, Attached + 1))
    /\ UNCHANGED lastCall

\* the attachments made to the member so far
AdvicesOn(member) == LET On(a) == member \in a.on IN SelectSeq(attachments, On)

CallMember(member, args) ==
    /\ member \in DOMAIN obj
    /\ LET r == Invoke(obj[member], args)
       IN  lastCall' = [op |-> "call", member |-> member, fn |-> obj[member], args |-> args,
                        ret |-> r.ret, trace |-> r.trace, err |-> r.err,
                        advices |-> AdvicesOn(member)]
    /\ UNCHANGED <<obj, attachments>>

AopInit ==
    /\ obj = [x \in {"m"} |-> <<FnBase(0, 1)>>]
    /\ attachments = <<>>
    /\ lastCall = [op |-> "init", member |-> "", fn |-> <<>>, args |-> Undefined,
                   ret |-> Undefined, trace |-> <<>>, err |-> FALSE, advices |-> <<>>]

\* ------------------------------------------------------------------------
\* saveData
\* ------------------------------------------------------------------------

GeomTypes == {"point", "line", "poly"}
Titles == {"Lot A", "Lot B"}
LatLngs == [lat : 0..MaxCoord, lng : 0..MaxCoord]

RECURSIVE SeqsUpTo(_, _)
SeqsUpTo(S, n) ==
    IF n = 0 THEN {<<>>}
    ELSE LET shorter == SeqsUpTo(S, n - 1)
         IN  shorter \cup {Append(q, x) : q \in {r \in shorter : Len(r) = n - 1}, x \in S}

\* a record: its type, the vertices of its geometry in getVertex order, its
\* title as [current, previous], and its id, <<>> while it has none
Records ==
    [type : GeomTypes, vertices : SeqsUpTo(LatLngs, MaxVertices),
     title : {<<t, "">> : t \in Titles}, id : {<<>>} \cup {<<i>> : i \in 1..MaxId}]

\* a loop that pushes [vertex.lat(), vertex.lng()]
Coordinates_LatLng(vertices) ==
    [i \in 1..Len(vertices) |-> <<vertices[i].lat, vertices[i].lng>>]

\* for (i < getVertexCount()) coordinates.push([vertex.lng(), vertex.lat()])
Coordinates(vertices) ==
    [i \in 1..Len(vertices) |-> <<vertices[i].lng, vertices[i].lat>>]

\* JSON.stringify of {"type": ..., "coordinates": [[n, n], ...]}, as the
\* sequence of the tokens of the text
RECURSIVE StringifyPairs(_, _)
StringifyPairs(pairs, i) ==
    IF i > Len(pairs) THEN <<>>
    ELSE (IF i > 1 THEN <<",">> ELSE <<>>)
         \o <<"[", ToString(pairs[i][1]), ",", ToString(pairs[i][2]), "]">>
         \o StringifyPairs(pairs, i + 1)

Stringify(geometry) ==
    <<"{\"type\":\"" \o geometry.type \o "\",\"coordinates\":[">>
    \o StringifyPairs(geometry.coordinates, 1) \o <<"]}">>

JsString(tokens) == [t |-> "string", v |-> tokens]

recordJSON(rec) ==
    [type |-> rec.type,
     geometry |-> JsString(Stringify([type |-> "Polygon",
                                       coordinates |-> Coordinates(rec.vertices)])),
     name |-> rec.title[1]]

Post(url, area, method) == [url |-> url, area |-> area, method |-> method]

\* a saveData whose update is not in an else branch
saveData_NoElse(rec) ==
    <<Post(<<"/areas">>, recordJSON(rec), "")>>
    \o (IF rec.id = <<>> THEN <<>>
        ELSE <<Post(<<"/areas/", ToString(rec.id[1])>>, recordJSON(rec), "PUT")>>)

\* the requests saveData makes for the record
saveData(rec) ==
    IF rec.id = <<>>        \* typeof(record.id) == "undefined"
    THEN <<Post(<<"/areas">>, recordJSON(rec), "")>>
    ELSE <<Post(<<"/areas/", ToString(rec.id[1])>>, recordJSON(rec), "PUT")>>

DoSaveData ==
    /\ lastSave' = [op |-> "save", record |-> record, requests |-> saveData(record)]
    /\ UNCHANGED <<record, controls, debugOn, failed, lastCreate>>

\* ------------------------------------------------------------------------
\* addControl, createGeometry_ and debug
\* ------------------------------------------------------------------------

ControlNames == {"markerControl", "polylineControl", "polygonControl"}

ControlFor(type) ==
    CASE type = "point" -> "markerControl"
      [] type = "line" -> "polylineControl"
      [] type = "poly" -> "polygonControl"

\* what a control's load method returns for a record of the type
Loaded(name, type) == [loaded |-> TRUE, by |-> name, type |-> type]
NoResult == [loaded |-> FALSE, by |-> "", type |-> ""]

\* debug(msg): GLog.write when Options.debug is set
debug(on) == [called |-> TRUE, written |-> on]
NoLog == [called |-> FALSE, written |-> FALSE]

Outcome(ret, raised, log, after) ==
    [ret |-> ret, raised |-> raised, log |-> log, controls |-> after]

\* a createGeometry_ without the try and catch
createGeometry__NoCatch(ctrls, type, loadThrows, on) ==
    IF ControlFor(type) \notin ctrls \/ loadThrows
    THEN Outcome(NoResult, TRUE, NoLog, ctrls)
    ELSE Outcome(Loaded(ControlFor(type), type), FALSE, NoLog, ctrls)

createGeometry_(ctrls, type, loadThrows, on) ==
    IF ControlFor(type) \notin ctrls \/ loadThrows
    THEN Outcome(NoResult, FALSE, debug(on), ctrls)     \* caught, logged
    ELSE Outcome(Loaded(ControlFor(type), type), FALSE, NoLog, ctrls)

\* me.controls[control.name] = control
AddControl(name) ==
    /\ controls' = controls \cup {name}
    /\ UNCHANGED <<record, lastSave, debugOn, failed, lastCreate>>

CreateGeometry(type, loadThrows) ==
    LET r == createGeometry_(controls, type, loadThrows, debugOn)
    IN  /\ controls' = r.controls
        /\ failed' = (failed \/ ControlFor(type) \notin controls)
        /\ lastCreate' = [op |-> "create", type |-> type, loadThrows |-> loadThrows,
                          before |-> controls, failedBefore |-> failed, out |-> r]
        /\ UNCHANGED <<record, lastSave, debugOn>>

NoRecord == [type |-> "poly", vertices |-> <<>>, title |-> <<"Lot A", "">>, id |-> <<>>]

DataInit(recs) ==
    /\ record \in recs
    /\ lastSave = [op |-> "init", record |-> record, requests |-> <<>>]
    /\ controls = {}
    /\ failed = FALSE
    /\ lastCreate = [op |-> "init", type |-> "", loadThrows |-> FALSE, before |-> {},
                     failedBefore |-> FALSE, out |-> Outcome(NoResult, FALSE, NoLog, {})]

Init == ToolInit /\ SaveInit /\ AopInit /\ DataInit({NoRecord}) /\ debugOn = TRUE

\* Tools registered under distinct names, whose functions return normally
Register ==
    \E name \in Names, stopIsFn \in BOOLEAN :
        /\ ~Has(buttons_, name)
        /\ CreateButton(name, TRUE, stopIsFn)
        /\ UNCHANGED <<saveVars, aopVars, dataVars>>

ClickButton ==
    /\ \E b \in 1..Len(btnOpts) : Click(b, {}, FALSE)
    /\ UNCHANGED <<saveVars, aopVars, dataVars>>

CallToggleButtons ==
    /\ \E name \in Names \cup {NoName} : ToggleButtonsCall(name, {})
    /\ UNCHANGED <<saveVars, aopVars, dataVars>>

Next == Register \/ ClickButton \/ CallToggleButtons

Spec == Init /\ [][Next]_vars

\* Tools registered under any name, also one already registered
RegisterAny ==
    /\ \E name \in Names, stopIsFn \in BOOLEAN : CreateButton(name, TRUE, stopIsFn)
    /\ UNCHANGED <<saveVars, aopVars, dataVars>>

SpecDup == Init /\ [][RegisterAny \/ ClickButton \/ CallToggleButtons]_vars

\* Tools whose stopDigitizing or startDigitizing may raise
ClickRaising ==
    /\ \E b \in 1..Len(btnOpts), badStop \in SUBSET (1..Len(btnOpts)), badStart \in BOOLEAN :
           Click(b, badStop, badStart)
    /\ UNCHANGED <<saveVars, aopVars, dataVars>>

SpecErr == Init /\ [][Register \/ ClickRaising \/ CallToggleButtons]_vars

\* Editing sessions, each bound once, and their commits
BindFresh ==
    /\ \E g \in 1..Len(commitStyling) :
           /\ \A i \in 1..Len(bound) : bound[i] # g
           /\ BindInfoWindow(g)
    /\ UNCHANGED <<toolVars, aopVars, dataVars>>

CreateGeomInfo == NewGeomInfo /\ UNCHANGED <<toolVars, aopVars, dataVars>>

Commit ==
    /\ \E g \in 1..Len(commitStyling) : CommitStyling(g)
    /\ UNCHANGED <<toolVars, aopVars, dataVars>>

SpecSave == Init /\ [][CreateGeomInfo \/ BindFresh \/ Commit]_vars

\* Advice attached to obj.m and to the missing obj.x, and calls of them
Attach ==
    /\ \E filter \in Filters :
           \/ AddBefore(filter)
           \/ AddAfter(filter)
           \/ \E times \in 0..MaxTimes : AddAround(filter, times)
    /\ UNCHANGED <<toolVars, saveVars, dataVars>>

CallObj ==
    /\ \E member \in Members, args \in Vals : CallMember(member, args)
    /\ UNCHANGED <<toolVars, saveVars, dataVars>>

SpecAop == Init /\ [][Attach \/ CallObj]_vars

\* Tools registered with or without a startDigitizing function
RegisterEither ==
    \E name \in Names, startIsFn \in BOOLEAN, stopIsFn \in BOOLEAN :
        /\ ~Has(buttons_, name)
        /\ CreateButton(name, startIsFn, stopIsFn)
        /\ UNCHANGED <<saveVars, aopVars, dataVars>>

SpecReg == Init /\ [][RegisterEither \/ ClickButton \/ CallToggleButtons]_vars

\* Editing sessions bound any number of times, and their commits
BindAny ==
    /\ Len(bound) < MaxBinds
    /\ \E g \in 1..Len(commitStyling) : BindInfoWindow(g)
    /\ UNCHANGED <<toolVars, aopVars, dataVars>>

SpecRebind == Init /\ [][CreateGeomInfo \/ BindAny \/ Commit]_vars

\* saveData applied to any record
InitSave == ToolInit /\ SaveInit /\ AopInit /\ DataInit(Records) /\ debugOn = TRUE

CallSaveData == DoSaveData /\ UNCHANGED <<toolVars, saveVars, aopVars>>

SpecPersist == InitSave /\ [][CallSaveData]_vars

\* controls added and geometries loaded through createGeometry_
InitLoad ==
    ToolInit /\ SaveInit /\ AopInit /\ DataInit({NoRecord}) /\ debugOn \in BOOLEAN

CallAddControl ==
    /\ \E name \in ControlNames : AddControl(name)
    /\ UNCHANGED <<toolVars, saveVars, aopVars>>

CallCreateGeometry ==
    /\ \E type \in GeomTypes, loadThrows \in BOOLEAN : CreateGeometry(type, loadThrows)
    /\ UNCHANGED <<toolVars, saveVars, aopVars>>

SpecLoad == InitLoad /\ [][CallAddControl \/ CallCreateGeometry]_vars

\* ------------------------------------------------------------------------
\* Properties of the exclusive activation of tools
\* ------------------------------------------------------------------------

DownButtons == {b \in RegisteredButtons : imgSrc[b] = "down"}
Digitizing == {t \in 1..Len(digitizing) : digitizing[t]}

\* tool b, and only b, is active and shown active
ActiveOnly(b) == DownButtons = {b} /\ Digitizing = {b}

RegisteredTools(stops) == {stops[k].ref : k \in 1..Len(stops)}

\* how many times f(arg) was called on tool t during the last operation
Times(f, t, arg) ==
    Cardinality({i \in 1..Len(last.calls) : last.calls[i] = Call(f, t, arg)})

\* C1: after every completed click on a registered button at most one
\* registered button shows its down image and at most one tool is started
\* and not stopped since.
C1_AtMostOneActive ==
    (last.op = "click" /\ ~last.err) =>
        /\ Cardinality(DownButtons) <= 1
        /\ Cardinality(Digitizing) <= 1

\* a click on one tool's button while another tool was digitizing
C1_Witness ==
    /\ last.op = "click" /\ ~last.err
    /\ Len(btnOpts) = 3
    /\ \E t \in 1..Len(last.preDig) : last.preDig[t] /\ t # last.btn
    /\ Digitizing = {last.btn}

\* C2: from no tool active, a first click on X's button makes X the active
\* tool, a second click straight after returns to no tool active and no
\* button down, and a third click re-activates X by calling its
\* startDigitizing.
C2_ToggleTwiceThenAgain ==
    /\ streak.n = 2 => NoneActive
    /\ streak.n \in {1, 3} =>
          /\ ActiveOnly(streak.btn)
          /\ Times("start", streak.btn, "undefined") = 1

C2_Witness == streak.n = 3 /\ Len(btnOpts) >= 2

\* C3: a click on the up button of registered tool X calls stopDigitizing(false)
\* exactly once on every registered tool other than X and never on X, all of
\* it before X's startDigitizing, the last call made, and X ends up the only
\* active tool.
C3_OthersStoppedThenStart ==
    (last.op = "click" /\ ~last.err /\ last.preSrc[last.btn] = "up") =>
        LET X == last.btn
            others == RegisteredTools(stopDigitizingFuncs_) \ {X}
            n == Len(last.calls)
        IN  /\ n = Cardinality(others) + 1
            /\ last.calls[n] = Call("start", X, "undefined")
            /\ \A t \in others : Times("stop", t, "false") = 1
            /\ \A i \in 1..n : last.calls[i].f = "stop" => last.calls[i].tool # X
            /\ ActiveOnly(X)

\* the click switched from a digitizing tool to X with three tools registered
C3_Witness ==
    /\ last.op = "click" /\ ~last.err /\ last.preSrc[last.btn] = "up"
    /\ Len(last.calls) = 3
    /\ \E t \in 1..Len(last.preDig) : last.preDig[t] /\ t # last.btn

\* C4 (as claimed): toggleButtons with an unregistered name raises and leaves
\* every button image as it was, calling no tool's function.
C4_UnknownToolStateUnchanged ==
    (last.op = "toggleButtons" /\ last.name # NoName /\ ~Has(last.preButtons, last.name)) =>
        /\ last.err
        /\ imgSrc = last.preSrc
        /\ last.calls = <<>>

\* C5 (as claimed): toggleButtons() with no name calls stopDigitizing(false)
\* on every registered tool and leaves no button down and no tool digitizing.
C5_DeactivateAllStopsTools ==
    (last.op = "toggleButtons" /\ last.name = NoName) =>
        /\ \A t \in RegisteredTools(stopDigitizingFuncs_) : Times("stop", t, "false") = 1
        /\ DownButtons = {}
        /\ \A t \in 1..Len(digitizing) : last.preDig[t] => ~digitizing[t]

\* C5 (amended): toggleButtons() with no name puts every registered button
\* up and calls no tool's function, so every tool that was digitizing before
\* the call is still digitizing after it.
C5_NoNameResetsButtonsOnly ==
    (last.op = "toggleButtons" /\ last.name = NoName) =>
        /\ DownButtons = {}
        /\ last.calls = <<>>
        /\ digitizing = last.preDig

\* toggleButtons() called while a tool was digitizing and its button was down
C5_Witness ==
    /\ last.op = "toggleButtons" /\ last.name = NoName
    /\ \E t \in 1..Len(last.preDig) : last.preDig[t] /\ last.preSrc[t] = "down"
    /\ Len(btnOpts) >= 2

\* C6 (as claimed): createButton with a controlName that is already
\* registered raises, keeps the earlier button and stop function, and changes
\* no button image and no tool's state.
C6_DuplicateRejected ==
    (last.op = "createButton" /\ last.btn # 0 /\ Has(last.preButtons, last.name)) =>
        /\ last.err
        /\ buttons_ = last.preButtons
        /\ stopDigitizingFuncs_ = last.preStops

\* C7 (as claimed): when a tool's function raises during a click on X, every
\* other registered tool has still been asked to stop, X's startDigitizing
\* has been called, and at most one tool is active, the one whose button is
\* down.
C7_TransitionCompletesOnError ==
    (last.op = "click" /\ last.err /\ last.preSrc[last.btn] = "up") =>
        /\ \A t \in RegisteredTools(stopDigitizingFuncs_) \ {last.btn} :
               Times("stop", t, "false") = 1
        /\ Times("start", last.btn, "undefined") = 1
        /\ Cardinality(Digitizing) <= 1
        /\ Digitizing \subseteq DownButtons

\* ------------------------------------------------------------------------
\* Properties of the auto-save aspect
\* ------------------------------------------------------------------------

Saves(trace) == {i \in 1..Len(trace) : trace[i].role = "after"}

\* C8: with autoSave on and every session bound once, each call of a bound
\* session's commitStyling returns normally and calls saveData exactly once.
C8_OneSavePerCommit ==
    (lastCommit.op = "commit" /\ autoSave /\ lastCommit.wasBound) =>
        /\ ~lastCommit.err
        /\ Cardinality(Saves(lastCommit.trace)) = 1

\* a commit of the first of three bound sessions
C8_Witness ==
    /\ lastCommit.op = "commit" /\ autoSave /\ lastCommit.wasBound
    /\ Len(bound) = 3 /\ lastCommit.g = bound[1]

\* C9 (as claimed): with autoSave on, the commitStyling of bound session A
\* runs A's own original callback and then saveData for A's own geomInfo,
\* also when another session was bound after A.
C9_CommitSavesOwnRecord ==
    (lastCommit.op = "commit" /\ autoSave /\ lastCommit.wasBound) =>
        lastCommit.trace = <<Ev("orig", lastCommit.g, Undefined, Undefined),
                             Ev("after", lastCommit.g, Undefined, Undefined)>>

\* ------------------------------------------------------------------------
\* Properties of the advice engine
\* ------------------------------------------------------------------------

\* C10: a call of a function with two after advices A then B attached runs
\* the original, then A, then B; A is given the original's result, B is
\* given A's return value, and the call returns B's return value.
C10_AfterAdviceOrder ==
    LET f == lastCall.fn
        t == lastCall.trace
    IN  (lastCall.op = "call" /\ Len(f) = 3 /\ f[1].k = "fn"
            /\ f[2].k = "after" /\ f[3].k = "after") =>
            /\ ~lastCall.err
            /\ Len(t) = 3
            /\ t[1].role = "orig" /\ t[1].recv = lastCall.args
            /\ t[2].role = "after" /\ t[3].role = "after"
            /\ t[2].who < t[3].who
            /\ t[2].recv = t[1].ret
            /\ t[3].recv = t[2].ret
            /\ lastCall.ret = t[3].ret

\* such a call in which the original, A and B each return something new
C10_Witness ==
    LET f == lastCall.fn
        t == lastCall.trace
    IN  /\ lastCall.op = "call" /\ Len(f) = 3 /\ f[1].k = "fn"
        /\ f[2].k = "after" /\ f[3].k = "after"
        /\ Len(t) = 3
        /\ t[1].ret # lastCall.args /\ t[2].ret # t[1].ret /\ t[3].ret # t[2].ret

\* C11: a call of a function with one before advice attached gives the
\* caller's arguments to the advice, calls the original with exactly what
\* the advice returned, and returns the original's result.
C11_BeforeRewritesArguments ==
    LET f == lastCall.fn
        t == lastCall.trace
    IN  (lastCall.op = "call" /\ Len(f) = 2 /\ f[1].k = "fn" /\ f[2].k = "before") =>
            /\ ~lastCall.err
            /\ Len(t) = 2
            /\ t[1].role = "before" /\ t[1].who = f[2].id /\ t[1].recv = lastCall.args
            /\ t[2].role = "orig" /\ t[2].recv = t[1].ret
            /\ lastCall.ret = t[2].ret

\* such a call in which the advice returned other arguments than it was given
C11_Witness ==
    LET f == lastCall.fn
        t == lastCall.trace
    IN  /\ lastCall.op = "call" /\ Len(f) = 2 /\ f[1].k = "fn" /\ f[2].k = "before"
        /\ Len(t) = 2 /\ t[1].ret # lastCall.args /\ t[2].recv # lastCall.args

OrigCalls(trace) == Cardinality({i \in 1..Len(trace) : trace[i].role = "orig"})

\* how often the advices of layers 2..n of f ask for the original: an around
\* advice as often as it chooses, a before or after wrapper once
RECURSIVE Asked(_, _)
Asked(f, n) ==
    IF n = 1 THEN 1
    ELSE (IF f[n].k = "around" THEN f[n].times ELSE 1) * Asked(f, n - 1)

\* C12: the original runs exactly as often as the around advices call it,
\* not at all when one of them does not, and once when only before and after
\* advices are attached; a call whose outermost advice is an around advice
\* returns that advice's result.
C12_OnlyAroundSuppressesOrRepeats ==
    LET f == lastCall.fn
        t == lastCall.trace
    IN  (lastCall.op = "call" /\ f[1].k = "fn") =>
            /\ ~lastCall.err
            /\ OrigCalls(t) = Asked(f, Len(f))
            /\ f[Len(f)].k = "around" =>
                  /\ t[1].role = "around" /\ t[1].who = f[Len(f)].id
                  /\ t[1].recv = lastCall.args
                  /\ lastCall.ret = t[1].ret

\* a call through an around advice that calls the original twice, itself
\* wrapped around a before advice
C12_Witness ==
    LET f == lastCall.fn
    IN  /\ lastCall.op = "call" /\ Len(f) = 3 /\ f[1].k = "fn"
        /\ f[2].k = "before" /\ f[3].k = "around" /\ f[3].times >= 2
        /\ OrigCalls(lastCall.trace) = f[3].times

\* ------------------------------------------------------------------------
\* Properties of saveData and createGeometry_
\* ------------------------------------------------------------------------

\* C13 as stated: the payload of a saved record has the record's type, its
\* title as name, and as geometry the sequence of [lng, lat] pairs of the
\* record's vertices, in vertex order.
C13_GeometryIsPairSequence ==
    lastSave.op = "save" =>
        \A k \in 1..Len(lastSave.requests) :
            LET area == lastSave.requests[k].area
                vs == lastSave.record.vertices
            IN  /\ area.type = lastSave.record.type
                /\ area.name = lastSave.record.title[1]
                /\ area.geometry.t = "array"
                /\ area.geometry.v = [i \in 1..Len(vs) |-> <<vs[i].lng, vs[i].lat>>]

\* C13 amended: the payload of a saved record has the record's type, its
\* current title as name, and as geometry a string, the JSON text of an object
\* of type "Polygon" (whatever the record's type) whose coordinates are the
\* [lng, lat] pairs of the record's vertices, as many and in vertex order.
C13_GeometryIsJsonText ==
    lastSave.op = "save" =>
        \A k \in 1..Len(lastSave.requests) :
            LET area == lastSave.requests[k].area
                vs == lastSave.record.vertices
                n == Len(vs)
                text == area.geometry.v
            IN  /\ area.type = lastSave.record.type
                /\ area.name = lastSave.record.title[1]
                /\ area.geometry.t = "string"
                /\ Len(text) = (IF n = 0 THEN 2 ELSE 6 * n + 1)
                /\ text[1] = "{\"type\":\"Polygon\",\"coordinates\":["
                /\ text[Len(text)] = "]}"
                /\ \A i \in 1..n :
                    /\ i > 1 => text[6 * i - 5] = ","
                    /\ text[6 * i - 4] = "["
                    /\ text[6 * i - 3] = ToString(vs[i].lng)
                    /\ text[6 * i - 2] = ","
                    /\ text[6 * i - 1] = ToString(vs[i].lat)
                    /\ text[6 * i] = "]"

\* a line of two vertices (0,1),(1,0) titled "Lot A" has been saved
C13_Witness ==
    /\ lastSave.op = "save"
    /\ lastSave.record.type = "line"
    /\ lastSave.record.vertices = <<[lat |-> 0, lng |-> 1], [lat |-> 1, lng |-> 0]>>
    /\ lastSave.record.title[1] = "Lot A"
    /\ Len(lastSave.requests) >= 1

\* C14: saveData makes exactly one request: a create posted to /areas when
\* the record has no id, an update of /areas/<id> (posted with _method PUT)
\* when it has one.
C14_OneRequestPerSave ==
    lastSave.op = "save" =>
        /\ Len(lastSave.requests) = 1
        /\ LET q == lastSave.requests[1]
               id == lastSave.record.id
           IN  /\ id = <<>> => q.url = <<"/areas">> /\ q.method = ""
               /\ id # <<>> => q.url = <<"/areas/", ToString(id[1])>> /\ q.method = "PUT"

\* a record that has an id has been saved with an update
C14_Witness ==
    /\ lastSave.op = "save"
    /\ lastSave.record.id # <<>>
    /\ \E k \in 1..Len(lastSave.requests) : lastSave.requests[k].method = "PUT"

\* C15: createGeometry_ for a type whose control is not registered logs and
\* returns nothing, raising nothing and leaving the registered controls as
\* they were; a call for a type whose control is registered, also after such
\* a call, returns what the control's load method returns.
C15_MissingControlSkipped ==
    lastCreate.op = "create" =>
        LET name == ControlFor(lastCreate.type) IN
        /\ lastCreate.out.controls = lastCreate.before
        /\ name \notin lastCreate.before =>
            /\ ~lastCreate.out.raised
            /\ lastCreate.out.log.called
            /\ ~lastCreate.out.ret.loaded
        /\ (name \in lastCreate.before /\ ~lastCreate.loadThrows) =>
            /\ ~lastCreate.out.raised
            /\ lastCreate.out.ret = Loaded(name, lastCreate.type)

\* after a call that found no control, a call for a registered type has loaded
C15_Witness ==
    /\ lastCreate.op = "create"
    /\ lastCreate.failedBefore
    /\ ControlFor(lastCreate.type) \in lastCreate.before
    /\ lastCreate.out.ret.loaded

\* ------------------------------------------------------------------------
\* Properties of attachment
\* ------------------------------------------------------------------------

\* C16: obj has no member x; whatever advice is attached with the plain name
\* "x", nothing is raised and obj still has no member of that name afterwards.
C16_MissingMemberNotInstalled == "x" \notin DOMAIN obj

\* ------------------------------------------------------------------------
\* Agreement of the buttons' images with the tools' activation
\* ------------------------------------------------------------------------

\* C17 as stated: after every completed toggleButtons call and every completed
\* click, the buttons showing the down image are exactly the tools that are
\* digitizing.
C17_DisplayAgreesAfterAnyCall ==
    (last.op \in {"click", "toggleButtons"} /\ ~last.err) => DownButtons = Digitizing

\* C17 amended: after every completed click the buttons showing the down image
\* are exactly the tools that are digitizing; after a completed
\* toggleButtons(name) only name's button shows down and no other tool is
\* digitizing, whether or not name's tool is.
C17_DisplayAgreesAfterClick ==
    /\ (last.op = "click" /\ ~last.err) => DownButtons = Digitizing
    /\ (last.op = "toggleButtons" /\ ~last.err /\ last.name # NoName) =>
           /\ DownButtons = {Lookup(buttons_, last.name)}
           /\ Digitizing \subseteq DownButtons

\* a click that found the images and the activation in disagreement and
\* ended with its tool active
C17_Witness ==
    /\ last.op = "click" /\ ~last.err
    /\ {b \in 1..Len(last.preSrc) : last.preSrc[b] = "down"}
           # {t \in 1..Len(last.preDig) : last.preDig[t]}
    /\ ActiveOnly(last.btn)

\* ------------------------------------------------------------------------
\* Accumulation of advice
\* ------------------------------------------------------------------------

\* where in the last call's trace the advice of the attachment ran
Ran(a) ==
    {j \in 1..Len(lastCall.trace) :
        lastCall.trace[j].role = a.k /\ lastCall.trace[j].who = a.id}

\* C18: after n addBefore/addAfter attachments to obj.m, a call of obj.m runs
\* each of the n advice functions once and the original once; of two before
\* advices the later attached runs first, of two after advices the later
\* attached runs last, and the latest attachment is outermost: a before advice
\* receives the caller's arguments, an after advice returns the call's result.
C18_AdviceAccumulates ==
    LET A == lastCall.advices
        n == Len(A)
        tr == lastCall.trace
    IN  (/\ lastCall.op = "call" /\ lastCall.member = "m"
         /\ \A i \in 1..n : A[i].k \in {"before", "after"}) =>
            /\ ~lastCall.err
            /\ Len(tr) = n + 1
            /\ Cardinality({j \in 1..Len(tr) : tr[j].role = "orig"}) = 1
            /\ \A i \in 1..n : Cardinality(Ran(A[i])) = 1
            /\ \A i, j \in 1..n : (i < j /\ A[i].k = A[j].k) =>
                   \A p \in Ran(A[i]), q \in Ran(A[j]) :
                       IF A[i].k = "before" THEN q < p ELSE p < q
            /\ n >= 1 =>
                   IF A[n].k = "before"
                   THEN tr[1].who = A[n].id /\ tr[1].recv = lastCall.args
                   ELSE tr[Len(tr)].who = A[n].id /\ tr[Len(tr)].ret = lastCall.ret

\* a call of obj.m after a before, an after and another before advice
C18_Witness ==
    /\ lastCall.op = "call" /\ lastCall.member = "m" /\ ~lastCall.err
    /\ Len(lastCall.advices) = 3
    /\ lastCall.advices[1].k = "before"
    /\ lastCall.advices[2].k = "after"
    /\ lastCall.advices[3].k = "before"
    /\ Len(lastCall.trace) = 4

\* ------------------------------------------------------------------------
\* Registration without startDigitizing, and sessions bound again
\* ------------------------------------------------------------------------

\* C19: createButton registers a tool only when both its startDigitizing and
\* its stopDigitizing are functions (the guard lets none through without a
\* stopDigitizing function, so what is left to hold is startDigitizing).
C19_RegisteredHasBothFunctions ==
    (last.op = "createButton" /\ last.btn # 0) =>
        /\ Has(buttons_, last.name)
        /\ btnOpts[last.btn].startIsFn

\* C20: with autoSave on, the commit of the geomInfo bound last, however many
\* times it was bound, ends without raising and has called the commit
\* callback the geomInfo was created with.
C20_RebindCommitTerminates ==
    (/\ lastCommit.op = "commit" /\ autoSave
     /\ Len(bound) > 0 /\ bound[Len(bound)] = lastCommit.g) =>
        /\ ~lastCommit.err
        /\ \E i \in 1..Len(lastCommit.trace) :
               /\ lastCommit.trace[i].role = "orig"
               /\ lastCommit.trace[i].who = lastCommit.g

====
